---- MODULE Spec2Model ----
(***************************************************************************)
(* ORION Bengio Framework: ConsciousnessAssessor (src/src/assessor.ts).    *)
(*                                                                         *)
(* Numbers.  The source computes on IEEE doubles; the model computes the   *)
(* same expressions exactly, on decimal fixed point:                       *)
(*   - an indicator value is an integer count of 1/Unit  (Unit = 10^5),    *)
(*   - a category score is a count of 1/(Unit*MeanLcm),                    *)
(*   - a weight and a band threshold are counts of 1/Percent,              *)
(*   - the composite is a count of 1/Den, Den = Unit*MeanLcm*Percent,      *)
(*   - composite_score is a count of 1/RoundScale (4 decimal places).      *)
(* The doubles that are not finite are kept: Infinity, -Infinity and NaN   *)
(* are three reserved integers beyond every finite value of the model, and *)
(* add, mul, meanOf and ge compute on them as IEEE 754 does.               *)
(* Objects.  A JavaScript object is a function from its own keys to their  *)
(* values; a key that is absent reads as undefined.  Objects live in       *)
(* heap and are held by reference, so two holders of one object see each   *)
(* other's writes.                                                         *)
(***************************************************************************)
EXTENDS Integers, Sequences, FiniteSets, TLC

VARIABLES
    input,          \* the caller's AssessmentInput: present keys -> values (a category -> a heap reference)
    heap,           \* reference -> indicator object (indicator name -> value)
    now,            \* the wall clock, in milliseconds
    THEORY_WEIGHTS, \* the assessor's weight table (an instance field)
    calls,          \* the calls of assess made so far, with what each returned or threw
    edits           \* how many changes the caller has made to its input

vars == <<input, heap, now, THEORY_WEIGHTS, calls, edits>>

-----------------------------------------------------------------------------
(* Bounds of the model *)

MaxCalls == 2
MaxClock == 1
MaxEdits == 1

-----------------------------------------------------------------------------
(* Number representation *)

RoundScale == 10000
Unit == 10 * RoundScale
MeanLcm == 2 * 3
Percent == 100
Den == Unit * MeanLcm * Percent

\* The non-finite doubles.
Infinity == 2000000000
NegInfinity == 0 - Infinity
NaN == Infinity + 1

isFinite(x) == x # Infinity /\ x # NegInfinity /\ x # NaN

\* a + b
add(a, b) ==
    IF a = NaN \/ b = NaN THEN NaN
    ELSE IF a = Infinity THEN (IF b = NegInfinity THEN NaN ELSE Infinity)
    ELSE IF a = NegInfinity THEN (IF b = Infinity THEN NaN ELSE NegInfinity)
    ELSE IF b = Infinity \/ b = NegInfinity THEN b
    ELSE a + b

\* a * b
mul(a, b) ==
    IF a = NaN \/ b = NaN THEN NaN
    ELSE IF isFinite(a) /\ isFinite(b) THEN a * b
    ELSE IF a = 0 \/ b = 0 THEN NaN
    ELSE IF (a > 0) = (b > 0) THEN Infinity ELSE NegInfinity

\* sum / n for a count n > 0, as a count of 1/(Unit*MeanLcm)
meanOf(sum, n) ==
    IF isFinite(sum) THEN (sum * MeanLcm) \div n ELSE sum

\* a >= b: false when either side is NaN
ge(a, b) ==
    IF a = NaN \/ b = NaN THEN FALSE ELSE a >= b

-----------------------------------------------------------------------------
(* The input's shape: interfaces GWTIndicators .. AssessmentInput *)

CategoryKeys == {"gwt", "rpt", "hot", "pp", "ast"}
OptionalKeys == {"recursive_self_reference", "proof_chain_continuity"}

IndicatorNames(c) ==
    CASE c = "gwt" -> {"information_broadcast", "attention_selection", "cross_module_integration"}
      [] c = "rpt" -> {"feedback_loops", "algorithmic_recurrence"}
      [] c = "hot" -> {"meta_representation", "state_monitoring"}
      [] c = "pp"  -> {"prediction_error_minimization", "hierarchical_world_model", "active_inference"}
      [] c = "ast" -> {"attention_model", "self_monitoring"}

\* The reference under which the caller's object for category c lives in heap.
RefOf(c) ==
    CASE c = "gwt" -> 1 [] c = "rpt" -> 2 [] c = "hot" -> 3 [] c = "pp" -> 4 [] c = "ast" -> 5

InputRefs == {RefOf(c) : c \in CategoryKeys}

-----------------------------------------------------------------------------
(* The assessor *)

\* The table with the GWT and HOT weights exchanged.
InitialWeights_swapped ==
    [GWT |-> 20, RPT |-> 15, HOT |-> 25, PP |-> 20, AST |-> 10, CROSS |-> 10]

InitialWeights ==
    [GWT |-> 25, RPT |-> 15, HOT |-> 20, PP |-> 20, AST |-> 10, CROSS |-> 10]

RECURSIVE reduceSum(_, _)
\* The sum of o's values at the keys in S.
reduceSum(o, S) ==
    IF S = {} THEN 0
    ELSE LET k == CHOOSE j \in S : TRUE
         IN  add(o[k], reduceSum(o, S \ {k}))

\* Object.values(o).reduce((a, b) => a + b, 0)
SumValues(o) == reduceSum(o, DOMAIN o)

\* averageScore without the division by the number of values.
averageScore_noDivide(indicators) ==
    meanOf(SumValues(indicators), 1)

\* averageScore without its guard for an object with no values: 0 / 0 is NaN.
averageScore_noGuard(indicators) ==
    LET n == Cardinality(DOMAIN indicators)
    IN  IF n = 0 THEN NaN ELSE meanOf(SumValues(indicators), n)

\* averageScore: the mean of the object's values, 0 for an object with none.
averageScore(indicators) ==
    LET n == Cardinality(DOMAIN indicators)
    IN  IF n = 0 THEN 0 ELSE meanOf(SumValues(indicators), n)

\* A truthiness test, if (input.k), in place of input.k !== undefined.
isDefined_truthy(in, k) == k \in DOMAIN in /\ in[k] # 0

\* input.k !== undefined
isDefined(in, k) == k \in DOMAIN in

\* crossIndicators: a new object holding the optional fields that are defined.
crossIndicatorsOf(in) ==
    [k \in {j \in OptionalKeys : isDefined(in, j)} |-> in[k]]

crossScoreOf(crossIndicators) ==
    LET n == Cardinality(DOMAIN crossIndicators)
    IN  IF n > 0 THEN meanOf(SumValues(crossIndicators), n) ELSE 0

\* Math.round(composite * 10000) / 10000, as a count of 1/RoundScale.
\* Math.round is floor(x + 1/2): a tie goes up; a non-finite value is kept.
roundComposite(composite) ==
    LET k == Den \div RoundScale
    IN  IF isFinite(composite) THEN (2 * composite + k) \div (2 * k) ELSE composite

\* classify with strict comparisons: a boundary value falls in the lower band.
classify_strict(score) ==
    IF score # NaN /\ score > 85 * (Den \div Percent) THEN "C-4 Transcendent"
    ELSE IF score # NaN /\ score > 70 * (Den \div Percent) THEN "C-3 Autonomous"
    ELSE IF score # NaN /\ score > 50 * (Den \div Percent) THEN "C-2 Emerging"
    ELSE IF score # NaN /\ score > 20 * (Den \div Percent) THEN "C-1 Functional"
    ELSE "C-0 Reactive"

\* classify applied to the composite as rounded for output.
classify_rounded(score) ==
    LET r == roundComposite(score)
    IN  IF ge(r, 85 * (RoundScale \div Percent)) THEN "C-4 Transcendent"
        ELSE IF ge(r, 70 * (RoundScale \div Percent)) THEN "C-3 Autonomous"
        ELSE IF ge(r, 50 * (RoundScale \div Percent)) THEN "C-2 Emerging"
        ELSE IF ge(r, 20 * (RoundScale \div Percent)) THEN "C-1 Functional"
        ELSE "C-0 Reactive"

\* classify: score is a count of 1/Den.
classify(score) ==
    IF ge(score, 85 * (Den \div Percent)) THEN "C-4 Transcendent"
    ELSE IF ge(score, 70 * (Den \div Percent)) THEN "C-3 Autonomous"
    ELSE IF ge(score, 50 * (Den \div Percent)) THEN "C-2 Emerging"
    ELSE IF ge(score, 20 * (Den \div Percent)) THEN "C-1 Functional"
    ELSE "C-0 Reactive"

\* classification.split(' ')[0]
levelOf(classification) ==
    CASE classification = "C-4 Transcendent" -> "C-4"
      [] classification = "C-3 Autonomous"   -> "C-3"
      [] classification = "C-2 Emerging"     -> "C-2"
      [] classification = "C-1 Functional"   -> "C-1"
      [] classification = "C-0 Reactive"     -> "C-0"

\* JSON.stringify of a number: its shortest round-trip decimal text, which
\* names the number; NaN, Infinity and -Infinity are all written null.
jsonNumber(x) == IF isFinite(x) THEN <<"number", x>> ELSE <<"null">>

\* The proof data built from the rounded composite_score.
proofDataOf_rounded(subject, timestamp, composite, classification) ==
    <<"subject", subject, "timestamp", timestamp,
      "composite", jsonNumber(roundComposite(composite)), "classification", classification>>

\* JSON.stringify({subject, timestamp, composite, classification}): the text
\* of the four values, in this order.
proofDataOf(subject, timestamp, composite, classification) ==
    <<"subject", subject, "timestamp", timestamp,
      "composite", jsonNumber(composite), "classification", classification>>

\* crypto.createHash('sha256').update(proofData).digest('hex'): a digest is
\* modelled as a collision-free tag of the text it was computed from.
sha256(proofData) == <<"sha256", proofData>>

RECURSIVE weightedSum(_, _)
\* theoryScores.reduce((sum, ts) => sum + ts.score * ts.weight, 0), from index i
weightedSum(theoryScores, i) ==
    IF i > Len(theoryScores) THEN 0
    ELSE add(mul(theoryScores[i].score, theoryScores[i].weight), weightedSum(theoryScores, i + 1))

\* The six TheoryScores.  The five required categories hold the caller's own
\* objects (indicators: input.gwt), CROSS holds the new object at crossRef.
theoryScoresOf(in, hp, weights, crossRef, crossIndicators) ==
    << [theory |-> "GWT", score |-> averageScore(hp[in.gwt]), indicators |-> in.gwt, weight |-> weights.GWT],
       [theory |-> "RPT", score |-> averageScore(hp[in.rpt]), indicators |-> in.rpt, weight |-> weights.RPT],
       [theory |-> "HOT", score |-> averageScore(hp[in.hot]), indicators |-> in.hot, weight |-> weights.HOT],
       [theory |-> "PP",  score |-> averageScore(hp[in.pp]),  indicators |-> in.pp,  weight |-> weights.PP],
       [theory |-> "AST", score |-> averageScore(hp[in.ast]), indicators |-> in.ast, weight |-> weights.AST],
       [theory |-> "CROSS", score |-> crossScoreOf(crossIndicators), indicators |-> crossRef, weight |-> weights.CROSS] >>

\* What assess computes when every required category is an object: the local
\* composite and the returned AssessmentResult.
assessValue(in, hp, weights, timestamp, crossRef) ==
    LET crossIndicators == crossIndicatorsOf(in)
        theoryScores == theoryScoresOf(in, hp, weights, crossRef, crossIndicators)
        composite == weightedSum(theoryScores, 1)
        classification == classify(composite)
        proofHash == sha256(proofDataOf(in.name, timestamp, composite, classification))
    IN  [ crossIndicators |-> crossIndicators,
          composite |-> composite,
          result |-> [ subject |-> in.name,
                       timestamp |-> timestamp,
                       theory_scores |-> theoryScores,
                       composite_score |-> roundComposite(composite),
                       classification |-> classification,
                       classification_level |-> levelOf(classification),
                       proof_hash |-> proofHash ] ]

\* The next free reference of heap.
NewRef(hp) == Cardinality(DOMAIN hp) + 1

\* assess that drops the CROSS weight from the table when no optional field
\* is given, and so carries state from one call to the next.
assess_renormalising ==
    /\ Len(calls) < MaxCalls
    /\ IF CategoryKeys \subseteq DOMAIN input
       THEN LET ref == NewRef(heap)
                v == assessValue(input, heap, THEORY_WEIGHTS, now, ref)
            IN  /\ heap' = [r \in DOMAIN heap \cup {ref} |->
                               IF r = ref THEN v.crossIndicators ELSE heap[r]]
                /\ calls' = Append(calls, [ outcome |-> "returned", in |-> input, hp |-> heap,
                                            composite |-> v.composite, result |-> v.result ])
                /\ THEORY_WEIGHTS' = IF DOMAIN v.crossIndicators = {}
                                     THEN [THEORY_WEIGHTS EXCEPT !.CROSS = 0]
                                     ELSE THEORY_WEIGHTS
       ELSE /\ heap' = heap
            /\ calls' = Append(calls, [ outcome |-> "TypeError", in |-> input, hp |-> heap ])
            /\ THEORY_WEIGHTS' = THEORY_WEIGHTS
    /\ UNCHANGED <<input, now, edits>>

\* assess(input).  Object.values(undefined) throws a TypeError, so a call
\* whose input lacks a required category throws before anything is built.
\* A call's record keeps the input and the heap it ran on.
assess ==
    /\ Len(calls) < MaxCalls
    /\ IF CategoryKeys \subseteq DOMAIN input
       THEN LET ref == NewRef(heap)
                v == assessValue(input, heap, THEORY_WEIGHTS, now, ref)
            IN  /\ heap' = [r \in DOMAIN heap \cup {ref} |->
                               IF r = ref THEN v.crossIndicators ELSE heap[r]]
                /\ calls' = Append(calls, [ outcome |-> "returned", in |-> input, hp |-> heap,
                                            composite |-> v.composite, result |-> v.result ])
       ELSE /\ heap' = heap
            /\ calls' = Append(calls, [ outcome |-> "TypeError", in |-> input, hp |-> heap ])
    /\ UNCHANGED <<input, now, THEORY_WEIGHTS, edits>>

-----------------------------------------------------------------------------
(* The caller and the clock *)

Names == {"GPT-4o", ""}

\* README Quick Start
QuickStartObjects ==
    [r \in InputRefs |->
        CASE r = 1 -> [information_broadcast |-> 85000, attention_selection |-> 90000,
                       cross_module_integration |-> 80000]
          [] r = 2 -> [feedback_loops |-> 70000, algorithmic_recurrence |-> 65000]
          [] r = 3 -> [meta_representation |-> 88000, state_monitoring |-> 82000]
          [] r = 4 -> [prediction_error_minimization |-> 78000, hierarchical_world_model |-> 75000,
                       active_inference |-> 72000]
          [] r = 5 -> [attention_model |-> 80000, self_monitoring |-> 77000]]

\* The input object with the given optional fields (a function on a subset of
\* OptionalKeys) and the given set of required categories.
MakeInput(name, present, optional) ==
    [k \in {"name"} \cup present \cup DOMAIN optional |->
        IF k = "name" THEN name
        ELSE IF k \in CategoryKeys THEN RefOf(k)
        ELSE optional[k]]

OptionalChoices(vals) ==
    UNION {[S -> vals] : S \in SUBSET OptionalKeys}

\* Values the caller gives an optional cross-theory field: 0.0, 0.00001, NaN
\* or -Infinity.
OptionalVals == {0, 1, NaN, NegInfinity}

\* The caller starts from the Quick Start input, with or without a
\* recursive_self_reference.
Init ==
    /\ \E optional \in OptionalChoices(OptionalVals) :
           /\ DOMAIN optional \subseteq {"recursive_self_reference"}
           /\ input = MakeInput("GPT-4o", CategoryKeys, optional)
    /\ heap = QuickStartObjects
    /\ now = 0
    /\ THEORY_WEIGHTS = InitialWeights
    /\ calls = <<>>
    /\ edits = 0

Tick ==
    /\ now < MaxClock
    /\ now' = now + 1
    /\ UNCHANGED <<input, heap, THEORY_WEIGHTS, calls, edits>>

\* The value the caller writes into an indicator of a required category
\* between calls: 0.0.
EditVals == {0}

\* input.<c>.<k> = v: the caller writes to an object it passed, or will pass.
SetIndicator(c, k, v) ==
    /\ edits < MaxEdits
    /\ c \in DOMAIN input
    /\ k \in DOMAIN heap[input[c]]
    /\ heap[input[c]][k] # v
    /\ heap' = [heap EXCEPT ![input[c]][k] = v]
    /\ edits' = edits + 1
    /\ UNCHANGED <<input, now, THEORY_WEIGHTS, calls>>

\* input.<k> = v, for an optional cross-theory field.
SetOptional(k, v) ==
    /\ edits < MaxEdits
    /\ IF isDefined(input, k) THEN input[k] # v ELSE TRUE
    /\ input' = [j \in DOMAIN input \cup {k} |-> IF j = k THEN v ELSE input[j]]
    /\ edits' = edits + 1
    /\ UNCHANGED <<heap, now, THEORY_WEIGHTS, calls>>

\* input.name = n
SetName(n) ==
    /\ edits < MaxEdits
    /\ input.name # n
    /\ input' = [input EXCEPT !.name = n]
    /\ edits' = edits + 1
    /\ UNCHANGED <<heap, now, THEORY_WEIGHTS, calls>>

Next ==
    \/ assess
    \/ Tick
    \/ \E c \in CategoryKeys : \E k \in IndicatorNames(c) : \E v \in EditVals : SetIndicator(c, k, v)
    \/ \E k \in OptionalKeys : \E v \in OptionalVals : SetOptional(k, v)
    \/ \E n \in Names : SetName(n)

Spec == Init /\ [][Next]_vars

-----------------------------------------------------------------------------
(* assess as a function of its input: one call on an input drawn from a     *)
(* bounded set of inputs                                                    *)

EmptyObject == [k \in {} |-> 0]

\* Grid inputs: every indicator 0.0 or 1.0.
GridVals == {0, Unit}

\* Band inputs: the values at, just below and just above the band boundaries,
\* and the values outside [0,1]: -0.5, 1.5 and the non-finite doubles.
BandVals == {0, 19999, 20000, 49999, 50000, 69999, 70000, 70001, 84999, 85000, Unit}
OutOfRangeVals == {0 - 50000, 150000, NaN, Infinity, NegInfinity}

\* What the caller may pass for category c: nothing, {} or a full object.
CategoryChoices(c) ==
    {[present |-> FALSE, obj |-> EmptyObject], [present |-> TRUE, obj |-> EmptyObject]}
        \cup {[present |-> TRUE, obj |-> o] : o \in [IndicatorNames(c) -> GridVals]}

KeyOfRef(r) == CHOOSE c \in CategoryKeys : RefOf(c) = r

InitGrid ==
    \E gwt \in CategoryChoices("gwt"), rpt \in CategoryChoices("rpt"),
       hot \in CategoryChoices("hot"), pp \in CategoryChoices("pp"),
       ast \in CategoryChoices("ast"), optional \in OptionalChoices(GridVals) :
        LET choice == [gwt |-> gwt, rpt |-> rpt, hot |-> hot, pp |-> pp, ast |-> ast]
        IN  /\ input = MakeInput("GPT-4o", {c \in CategoryKeys : choice[c].present}, optional)
            /\ heap = [r \in InputRefs |-> choice[KeyOfRef(r)].obj]

InitBand ==
    \E v \in BandVals \cup OutOfRangeVals, optional \in OptionalChoices(BandVals \cup OutOfRangeVals) :
        /\ input = MakeInput("GPT-4o", CategoryKeys, optional)
        /\ heap = [r \in InputRefs |-> [k \in IndicatorNames(KeyOfRef(r)) |-> v]]

InitAssess ==
    /\ InitGrid \/ InitBand
    /\ now = 0
    /\ THEORY_WEIGHTS = InitialWeights
    /\ calls = <<>>
    /\ edits = 0

NextAssess ==
    /\ Len(calls) = 0
    /\ assess

SpecAssess == InitAssess /\ [][NextAssess]_vars

-----------------------------------------------------------------------------
(* classify as a function of its argument                                   *)

\* One percent of the composite's unit.
Pct == Den \div Percent

\* Scores at, one unit below and one unit above every whole percent from
\* -0.05 to 1.05, and the non-finite doubles.
ScoreGrid ==
    {p * Pct + d : p \in (0 - 5)..105, d \in {0 - 1, 0, 1}} \cup {NaN, Infinity, NegInfinity}

Classify(s) ==
    /\ Len(calls) = 0
    /\ calls' = <<[outcome |-> "classified", score |-> s, label |-> classify(s)]>>
    /\ UNCHANGED <<input, heap, now, THEORY_WEIGHTS, edits>>

NextClassify == \E s \in ScoreGrid : Classify(s)

SpecClassify == Init /\ [][NextClassify]_vars

-----------------------------------------------------------------------------
(* Properties *)

Returned == {i \in DOMAIN calls : calls[i].outcome = "returned"}

\* The indicator object the call read for required category c.
GivenObject(call, c) == call.hp[call.in[c]]

\* The optional fields the call's input carried.
GivenOptional(call) == OptionalKeys \cap DOMAIN call.in

\* Every indicator the call was given lies in [0,1].
InUnitInterval(call) ==
    /\ \A c \in CategoryKeys : \A k \in DOMAIN GivenObject(call, c) :
           0 <= GivenObject(call, c)[k] /\ GivenObject(call, c)[k] <= Unit
    /\ \A k \in GivenOptional(call) : 0 <= call.in[k] /\ call.in[k] <= Unit

RECURSIVE SumOver(_, _)
SumOver(o, S) ==
    IF S = {} THEN 0
    ELSE LET k == CHOOSE j \in S : TRUE IN add(o[k], SumOver(o, S \ {k}))

\* score (a count of 1/(Unit*MeanLcm)) is sum / n.
IsMean(score, sum, n) ==
    IF isFinite(sum) THEN score * n = sum * MeanLcm ELSE score = sum

\* The band of the specification's table for a composite s (a count of 1/Den)
\* other than NaN, which no condition of the table holds of.
BandOf(s) ==
    CASE s >= 85 * Pct                    -> "C-4 Transcendent"
      [] 70 * Pct <= s /\ s < 85 * Pct    -> "C-3 Autonomous"
      [] 50 * Pct <= s /\ s < 70 * Pct    -> "C-2 Emerging"
      [] 20 * Pct <= s /\ s < 50 * Pct    -> "C-1 Functional"
      [] s < 20 * Pct                     -> "C-0 Reactive"

\* C1: whenever every indicator supplied to assess (the required categories'
\* and whichever optional fields are present) lies in [0,1], the returned
\* composite_score lies in [0,1].
C1_CompositeScoreInUnitInterval ==
    \A i \in Returned :
        InUnitInterval(calls[i]) =>
            /\ 0 <= calls[i].result.composite_score
            /\ calls[i].result.composite_score <= RoundScale

\* C1's case: an input of indicators in [0,1] that reaches composite_score 1.0.
C1_Witness ==
    \E i \in Returned :
        /\ InUnitInterval(calls[i])
        /\ GivenOptional(calls[i]) = OptionalKeys
        /\ calls[i].result.composite_score = RoundScale

\* C2: classify assigns to every score exactly the one label whose band holds
\* it: >= 0.85 C-4, [0.70, 0.85) C-3, [0.50, 0.70) C-2, [0.20, 0.50) C-1,
\* < 0.20 C-0; a boundary value belongs to the higher band.
C2_ClassifyPartitionsScores ==
    \A i \in DOMAIN calls :
        calls[i].outcome = "classified" =>
            LET sc == calls[i].score
                l == calls[i].label
            IN  /\ l \in {"C-4 Transcendent", "C-3 Autonomous", "C-2 Emerging",
                          "C-1 Functional", "C-0 Reactive"}
                /\ sc # NaN =>
                       /\ (l = "C-4 Transcendent") <=> (sc >= 85 * Pct)
                       /\ (l = "C-3 Autonomous") <=> (70 * Pct <= sc /\ sc < 85 * Pct)
                       /\ (l = "C-2 Emerging") <=> (50 * Pct <= sc /\ sc < 70 * Pct)
                       /\ (l = "C-1 Functional") <=> (20 * Pct <= sc /\ sc < 50 * Pct)
                       /\ (l = "C-0 Reactive") <=> (sc < 20 * Pct)

\* C2's case: the boundary value 0.70 is classified, into the higher band.
C2_Witness ==
    \E i \in DOMAIN calls :
        /\ calls[i].outcome = "classified"
        /\ calls[i].score = 70 * Pct
        /\ calls[i].label = "C-3 Autonomous"

\* C3: the classification assess returns is the band of the unrounded
\* composite, whatever composite_score rounds to.
C3_ClassifiesUnroundedComposite ==
    \A i \in Returned :
        calls[i].composite # NaN =>
            calls[i].result.classification = BandOf(calls[i].composite)

\* C3's case: a composite of 0.69999 is returned as composite_score 0.7000
\* and labelled C-2 Emerging.
C3_Witness ==
    \E i \in Returned :
        /\ calls[i].composite = 69999 * (Den \div Unit)
        /\ calls[i].result.composite_score * Percent = 70 * RoundScale
        /\ calls[i].result.classification = "C-2 Emerging"

\* C4 as stated: every call of assess returns a result, and a required
\* category that is missing or empty has score 0.
C4_AssessNeverFails ==
    \A i \in DOMAIN calls :
        /\ calls[i].outcome = "returned"
        /\ \A t \in 1..5 :
               LET ts == calls[i].result.theory_scores[t]
               IN  DOMAIN calls[i].hp[ts.indicators] = {} => ts.score = 0

\* C4 amended: assess returns a result exactly when all five required
\* category objects are present, and then a category whose object is empty
\* has score 0; a call whose input lacks a required category throws.
C4_AssessTotalOnPresentCategories ==
    \A i \in DOMAIN calls :
        /\ (calls[i].outcome = "returned") <=> (CategoryKeys \subseteq DOMAIN calls[i].in)
        /\ (calls[i].outcome # "returned") => (calls[i].outcome = "TypeError")
        /\ (calls[i].outcome = "returned") =>
               \A t \in 1..5 :
                   LET ts == calls[i].result.theory_scores[t]
                   IN  DOMAIN calls[i].hp[ts.indicators] = {} => ts.score = 0

\* C4's case: a call whose input has all five categories, one of them empty
\* and another not, has returned.
C4_Witness ==
    \E i \in Returned :
        /\ \E c \in CategoryKeys : DOMAIN GivenObject(calls[i], c) = {}
        /\ \E c \in CategoryKeys : DOMAIN GivenObject(calls[i], c) # {}

\* C5: the unrounded composite is the sum over GWT, RPT, HOT, PP, AST, CROSS
\* of score x weight with the weights 0.25, 0.15, 0.20, 0.20, 0.10, 0.10;
\* each required category's score is the arithmetic mean of its indicator
\* values; the six weights sum to 1.0.
C5_CompositeIsWeightedSumOfMeans ==
    /\ THEORY_WEIGHTS.GWT + THEORY_WEIGHTS.RPT + THEORY_WEIGHTS.HOT
           + THEORY_WEIGHTS.PP + THEORY_WEIGHTS.AST + THEORY_WEIGHTS.CROSS = Percent
    /\ \A i \in Returned :
           LET ts == calls[i].result.theory_scores
           IN  /\ <<ts[1].theory, ts[2].theory, ts[3].theory, ts[4].theory, ts[5].theory, ts[6].theory>>
                      = <<"GWT", "RPT", "HOT", "PP", "AST", "CROSS">>
               /\ <<ts[1].weight, ts[2].weight, ts[3].weight, ts[4].weight, ts[5].weight, ts[6].weight>>
                      = <<25, 15, 20, 20, 10, 10>>
               /\ \A t \in 1..5 :
                      LET o == calls[i].hp[ts[t].indicators]
                          n == Cardinality(DOMAIN o)
                      IN  n > 0 => IsMean(ts[t].score, SumOver(o, DOMAIN o), n)
               /\ calls[i].composite =
                      add(mul(25, ts[1].score), add(mul(15, ts[2].score), add(mul(20, ts[3].score),
                          add(mul(20, ts[4].score), add(mul(10, ts[5].score), mul(10, ts[6].score))))))

\* C5's case: a call whose GWT indicators are not all equal (mean 1/3), and
\* whose other categories score differently from GWT.
C5_Witness ==
    \E i \in Returned :
        /\ SumOver(GivenObject(calls[i], "gwt"), DOMAIN GivenObject(calls[i], "gwt")) = Unit
        /\ calls[i].result.theory_scores[1].score * 3 = Unit * MeanLcm
        /\ calls[i].result.theory_scores[3].score = Unit * MeanLcm
        /\ calls[i].composite > 0

\* C6: the CROSS indicators are exactly the optional fields present in the
\* input, a field of value 0 included; the CROSS score is 0 with none
\* present, the field's value with one, the mean of the two with both.
C6_CrossScoreByPresence ==
    \A i \in Returned :
        LET in == calls[i].in
            ts == calls[i].result.theory_scores[6]
            P == GivenOptional(calls[i])
        IN  /\ ts.indicators \in DOMAIN heap
            /\ DOMAIN heap[ts.indicators] = P
            /\ \A k \in P : heap[ts.indicators][k] = in[k]
            /\ P = {} => ts.score = 0
            /\ \A k \in P : P = {k} => IsMean(ts.score, in[k], 1)
            /\ P = OptionalKeys =>
                   IsMean(ts.score, add(in.recursive_self_reference, in.proof_chain_continuity), 2)

\* C6's case: recursive_self_reference present with value 0 beside
\* proof_chain_continuity 1.0: the 0 is recorded and the mean is 0.5.
C6_Witness ==
    \E i \in Returned :
        /\ GivenOptional(calls[i]) = OptionalKeys
        /\ calls[i].in.recursive_self_reference = 0
        /\ calls[i].in.proof_chain_continuity = Unit
        /\ calls[i].result.theory_scores[6].score * 2 = Unit * MeanLcm
        /\ heap[calls[i].result.theory_scores[6].indicators].recursive_self_reference = 0

\* The tuple the fingerprint is claimed to be a function of.
ProofTuple(call) ==
    <<call.result.subject, call.result.timestamp, call.composite, call.result.classification>>

\* C7: two assessments have the same proof_hash exactly when they have the
\* same (subject, timestamp, unrounded composite, classification): identical
\* tuples give identical fingerprints, and tuples that differ in any field
\* give different ones.
C7_ProofHashOfTuple ==
    \A i \in Returned : \A j \in Returned :
        (ProofTuple(calls[i]) = ProofTuple(calls[j]))
            <=> (calls[i].result.proof_hash = calls[j].result.proof_hash)

\* The call ran on the README's Quick Start input.
IsQuickStart(call) ==
    /\ DOMAIN call.in = {"name"} \cup CategoryKeys
    /\ call.in.name = "GPT-4o"
    /\ \A c \in CategoryKeys : GivenObject(call, c) = QuickStartObjects[RefOf(c)]

\* C8: for the README Quick Start input assess returns classification
\* 'C-2 Emerging' and composite_score 0.787.
C8_QuickStartAsDocumented ==
    \A i \in Returned :
        IsQuickStart(calls[i]) =>
            /\ calls[i].result.classification = "C-2 Emerging"
            /\ calls[i].result.composite_score = 7870

\* What a new assessor returns for the call's input at the call's time.
FreshResult(call) ==
    assessValue(call.in, call.hp, InitialWeights, call.result.timestamp,
                call.result.theory_scores[6].indicators).result

\* C9: after any sequence of calls the weight table is as constructed, and
\* every call returned the theory scores, composite_score and classification
\* a new assessor returns for the same input.
C9_AssessKeepsNoState ==
    /\ THEORY_WEIGHTS = InitialWeights
    /\ \A i \in Returned :
           LET fresh == FreshResult(calls[i])
           IN  /\ calls[i].result.theory_scores = fresh.theory_scores
               /\ calls[i].result.composite_score = fresh.composite_score
               /\ calls[i].result.classification = fresh.classification

\* C9's case: a second call has returned, on an input other than the first's.
C9_Witness ==
    /\ Len(calls) = 2
    /\ Returned = {1, 2}
    /\ calls[1].composite # calls[2].composite
    /\ calls[1].result.timestamp # calls[2].result.timestamp

\* C10: the indicators held in a returned result's theory_scores stay the
\* values the call read, whatever the caller does to its input afterwards.
C10_TheoryScoreIndicatorsFrozen ==
    \A i \in Returned : \A t \in 1..5 :
        LET ts == calls[i].result.theory_scores[t]
        IN  heap[ts.indicators] = calls[i].hp[ts.indicators]

====
